---- MODULE Spec2Model ----
(***************************************************************************)
(* FairLimitedHeap (src/FairLimitedHeap.py): a heapq-backed list of        *)
(* (score, item) tuples with a soft size limit.  The model keeps the       *)
(* internal list _data and _soft_limit, and one action per public          *)
(* mutating operation (push, pop); SpecDeep runs push alone on longer      *)
(* arrays.  SpecRead adds as_sorted_list, SpecIndex the container          *)
(* protocol, SpecCtor and SpecBad run the constructor on INITIAL, and      *)
(* SpecSide steps a NonNanFairLimitedHeap beside a FairLimitedHeap.        *)
(* SpecIter hands the constructor a single-pass iterator, SpecNaN builds   *)
(* a NonNanFairLimitedHeap from INITIAL with NaN scores, SpecHist records  *)
(* the entries pushed, popped and evicted, and SpecDistinct pushes         *)
(* pairwise distinct scores.                                               *)
(* heapq's heappush / heappop are                                          *)
(* modelled step for step (CPython Lib/heapq.py) because the array order   *)
(* they produce decides which entries push scans and evicts.               *)
(*                                                                         *)
(* Positions are 0-based as in the source; a TLA+ sequence is 1-based, so  *)
(* the entry at position p is heap[p + 1].                                 *)
(***************************************************************************)
EXTENDS Integers, Sequences, FiniteSets, Bags

\* ---------------------------------------------------------------- bounds
MaxLimit == 3      \* soft_limit ranges over 1..MaxLimit
MaxLen   == 4      \* a push is taken only while len(_data) < MaxLen
MaxScore == 3      \* scores range over 1..MaxScore
MaxItem  == 2      \* items range over 1..MaxItem
DeepLimit == 5     \* SpecDeep: soft_limit ranges over 1..DeepLimit
DeepLen   == 8     \* SpecDeep: a push is taken only while len(_data) < DeepLen
ReadLen   == 3     \* SpecRead: a push is taken only while len(_data) < ReadLen
IndexLen  == 2     \* SpecIndex: a push is taken only while len(_data) < IndexLen
CtorLimit == 2     \* SpecCtor, SpecBad: soft_limit ranges over 1..CtorLimit
CtorVal   == 2     \* SpecCtor, SpecBad: pair components range over 1..CtorVal
MaxInit   == 3     \* SpecCtor: INITIAL holds at most MaxInit pairs
BadLen    == 2     \* SpecBad: INITIAL holds at most BadLen pairs
SideLen   == 3     \* SpecSide: a push is taken only while len(_data) < SideLen
HistPushes == 4    \* SpecHist: at most HistPushes calls of push
HistItem   == 1    \* SpecHist, SpecDistinct: items range over 1..HistItem
DistinctScore == 5 \* SpecDistinct: scores range over 1..DistinctScore
NaNInit    == 2    \* SpecNaN: INITIAL holds at most NaNInit pairs
NaNPushes  == 1    \* SpecNaN: at most NaNPushes calls of push after construction

Scores  == 1..MaxScore
Items   == 1..MaxItem
Entries == Scores \X Items           \* (score, item) tuples, as stored

None == 0                            \* Python's None (no value returned)
NaN == 0 - 1                         \* float('nan'), offered as a score
NotNum == 0 - 2                      \* a value that is no numbers.Number (a str)
NegInf == 0                          \* float('-inf'): below every score
PosInf == MaxScore + 1               \* float('inf'): above every score

Classes == {"FairLimitedHeap", "NonNanFairLimitedHeap"}

VARIABLES
    _soft_limit,   \* self._soft_limit
    _data,         \* self._data, the heap array of (score, item) tuples
    op,            \* the last call: "init", "push" or "pop"
    arg,           \* its argument: the pushed (value, item), or the pop flag
    pre,           \* self._data as it was when the last call began
    ret,           \* outcome of the last call: [kind, val]
    grow,          \* progress of a grow-then-evict run (class docstring example)
    cls,           \* type(self): "FairLimitedHeap" or "NonNanFairLimitedHeap"
    initial,       \* the constructor's INITIAL argument, a sequence of pairs
    twin,          \* a second heap object: [cls, limit, data, order, fed]
    single_pass,   \* INITIAL is an iterator that can be traversed only once
    hist           \* bags of the entries pushed, popped and evicted so far

vars == <<_soft_limit, _data, op, arg, pre, ret, grow, cls, initial, twin,
          single_pass, hist>>

\* ------------------------------------------------------- tuple comparison
\* Python's (score, item) < (score', item'): first component, then second.
Less(a, b) == \/ a[1] < b[1]
              \/ (a[1] = b[1] /\ a[2] < b[2])

SetMin(S) == CHOOSE x \in S : \A y \in S : x <= y

\* ------------------------------------------------------------------ heapq
RECURSIVE _siftdown(_, _, _, _)
\* heapq._siftdown(heap, startpos, pos) with newitem = heap[pos] carried along.
_siftdown(heap, startpos, pos, newitem) ==
    IF pos > startpos
    THEN LET parentpos == (pos - 1) \div 2
             parent    == heap[parentpos + 1]
         IN  IF Less(newitem, parent)
             THEN _siftdown([heap EXCEPT ![pos + 1] = parent], startpos, parentpos, newitem)
             ELSE [heap EXCEPT ![pos + 1] = newitem]
    ELSE [heap EXCEPT ![pos + 1] = newitem]

RECURSIVE _siftup_loop(_, _, _)
\* The while loop of heapq._siftup: bubble the smaller child up until a leaf.
\* Returns the heap and the leaf position reached.
_siftup_loop(heap, pos, endpos) ==
    LET childpos == 2 * pos + 1
        rightpos == childpos + 1
    IN  IF childpos < endpos
        THEN LET c == IF rightpos < endpos /\ ~Less(heap[childpos + 1], heap[rightpos + 1])
                      THEN rightpos ELSE childpos
             IN  _siftup_loop([heap EXCEPT ![pos + 1] = heap[c + 1]], c, endpos)
        ELSE [heap |-> heap, pos |-> pos]

\* heapq._siftup(heap, pos)
_siftup(heap, pos) ==
    LET newitem == heap[pos + 1]
        r       == _siftup_loop(heap, pos, Len(heap))
    IN  _siftdown(r.heap, pos, r.pos, newitem)

\* heapq.heappushpop: what push would do had it called the wrong heapq routine.
heappushpop(heap, item) ==
    IF heap # <<>> /\ Less(heap[1], item)
    THEN _siftup([heap EXCEPT ![1] = item], 0)
    ELSE heap

\* list.append in place of heapq.heappush: the new entry is not sifted.
heappush_append(heap, item) ==
    Append(heap, item)

\* heapq.heappush(heap, item)
heappush(heap, item) ==
    _siftdown(Append(heap, item), 0, Len(heap), item)

\* list.pop() in place of heapq.heappop: takes the last array entry.
heappop_last(heap) ==
    [heap |-> SubSeq(heap, 1, Len(heap) - 1), item |-> heap[Len(heap)]]

\* heap[0] in place of heapq.heappop: the minimum is returned, not removed.
heappop_peek(heap) ==
    [heap |-> heap, item |-> heap[1]]

\* heapq.heappop(heap) on a non-empty list: the new list and the returned entry.
heappop(heap) ==
    LET lastelt == heap[Len(heap)]
        rest    == SubSeq(heap, 1, Len(heap) - 1)
    IN  IF rest # <<>>
        THEN [heap |-> _siftup([rest EXCEPT ![1] = lastelt], 0), item |-> heap[1]]
        ELSE [heap |-> rest, item |-> lastelt]

\* --------------------------------------------------------- FairLimitedHeap
\* The for loop of push: the value of `index` when the loop ends.  It breaks at
\* the first array position whose score differs from the score at position 0;
\* if no position differs, index is left at the last position, len - 1.
ScanIndex(data) ==
    LET differs == {i \in 1..(Len(data) - 1) : data[i + 1][1] # data[1][1]}
    IN  IF differs = {} THEN Len(data) - 1 ELSE SetMin(differs)

\* The eviction test dropped: always evict the scanned run.
EvictCount_unguarded(data, limit) ==
    ScanIndex(data)

\* The eviction test written against soft_limit - 1.
EvictCount_undershoot(data, limit) ==
    IF Len(data) - ScanIndex(data) >= limit - 1 THEN ScanIndex(data) ELSE 0

\* range(index + 1): one heappop more than the scanned run.
EvictCount_overrun(data, limit) ==
    IF Len(data) - ScanIndex(data) >= limit THEN ScanIndex(data) + 1 ELSE 0

\* The eviction test written with > in place of >=.
EvictCount_strict(data, limit) ==
    IF Len(data) - ScanIndex(data) > limit THEN ScanIndex(data) ELSE 0

\* How many heappop calls push makes: range(index) if the test passes, else none.
EvictCount(data, limit) ==
    IF Len(data) - ScanIndex(data) >= limit THEN ScanIndex(data) ELSE 0

RECURSIVE PopN(_, _)
\* for i in range(n): heapq.heappop(self._data)
PopN(data, n) ==
    IF n = 0 THEN data ELSE PopN(heappop(data).heap, n - 1)

\* push with the early return taken one entry later: len <= soft_limit + 1.
push_slack(data, limit, item, value) ==
    LET pushed == heappush(data, <<value, item>>)
    IN  IF Len(pushed) <= limit + 1
        THEN pushed
        ELSE PopN(pushed, EvictCount(pushed, limit))

\* FairLimitedHeap.push(item, value): the new self._data.
push(data, limit, item, value) ==
    LET pushed == heappush(data, <<value, item>>)
    IN  IF Len(pushed) <= limit
        THEN pushed
        ELSE PopN(pushed, EvictCount(pushed, limit))

RECURSIVE insort(_, _)
\* Place entry e in the ascending sequence s, after the entries not greater.
insort(s, e) ==
    IF s = <<>> \/ Less(e, s[1])
    THEN <<e>> \o s
    ELSE <<s[1]>> \o insort(Tail(s), e)

RECURSIVE sorted(_)
\* Python's sorted(self._data): a new ascending list, stable.
sorted(data) ==
    IF data = <<>>
    THEN <<>>
    ELSE insort(sorted(SubSeq(data, 1, Len(data) - 1)), data[Len(data)])

\* Outcome of a call: kind is "ok" or the exception raised; val the value returned.
Outcome(d, k, v) == [data |-> d, kind |-> k, val |-> v]

\* np.isnan(value)
isnan(value) == value = NaN

\* The filter written with np.isfinite: infinities are dropped as well.
NonNan_push_isfinite(data, limit, item, value) ==
    IF value \in {NaN, NegInf, PosInf} THEN data ELSE push(data, limit, item, value)

\* The filter left out: every value goes to FairLimitedHeap.push.
NonNan_push_unfiltered(data, limit, item, value) ==
    push(data, limit, item, value)

\* NonNanFairLimitedHeap.push(item, value): the new self._data.
NonNan_push(data, limit, item, value) ==
    IF isnan(value) THEN data ELSE push(data, limit, item, value)

\* self.push bound to FairLimitedHeap.push whatever the class of self.
self_push_base(c, data, limit, item, value) ==
    push(data, limit, item, value)

\* self.push(item, value) on an object of class c.
self_push(c, data, limit, item, value) ==
    IF c = "NonNanFairLimitedHeap"
    THEN NonNan_push(data, limit, item, value)
    ELSE push(data, limit, item, value)

RECURSIVE push_all_noevict(_, _, _, _)
\* The constructor's loop calling heapq.heappush directly: no eviction.
push_all_noevict(c, data, limit, init) ==
    IF init = <<>>
    THEN data
    ELSE push_all_noevict(c, heappush(data, <<init[1][1], init[1][2]>>), limit, Tail(init))

RECURSIVE push_all_named(_, _, _, _)
\* The constructor's loop calling self.push(item, value), as push is declared.
push_all_named(c, data, limit, init) ==
    IF init = <<>>
    THEN data
    ELSE push_all_named(c, self_push(c, data, limit, init[1][1], init[1][2]), limit, Tail(init))

RECURSIVE push_all(_, _, _, _)
\* for item, value in initial: self.push(value, item)
\* The pair's first component is bound to `item`, its second to `value`, and
\* push(item, value) receives them swapped: push's item is the pair's second
\* component and push's value (the score) is the pair's first.
push_all(c, data, limit, init) ==
    IF init = <<>>
    THEN data
    ELSE push_all(c, self_push(c, data, limit, init[1][2], init[1][1]), limit, Tail(init))

\* isinstance(x, numbers.Number)
IsNumber(x) == x # NotNum

\* What a second `for ... in initial` yields after a first one has run to the
\* end: a list or tuple yields its pairs again, a single-pass iterator (which
\* is true-ish even when it holds no pair) is exhausted and yields nothing.
SecondPass(init, once) ==
    IF once THEN <<>> ELSE init

\* __init__ with the assertions stripped: INITIAL is traversed once only.
__init___noassert(c, soft_limit, init, once) ==
    Outcome(push_all(c, <<>>, soft_limit, init), "ok", None)

\* FairLimitedHeap.__init__(soft_limit, initial): the assertion loop traverses
\* INITIAL and tests the first component of every pair before any push; the
\* push loop then traverses INITIAL a second time.
__init__(c, soft_limit, init, once) ==
    IF \E i \in DOMAIN init : ~IsNumber(init[i][1])
    THEN Outcome(<<>>, "AssertionError", None)
    ELSE Outcome(push_all(c, <<>>, soft_limit, SecondPass(init, once)), "ok", None)

\* __eq__ comparing the sorted contents instead of the arrays.
__eq___sorted(c1, data1, c2, data2) ==
    IF c1 # c2 THEN FALSE ELSE sorted(data1) = sorted(data2)

\* FairLimitedHeap.__eq__(other), other a heap of class c2 with array data2.
__eq__(c1, data1, c2, data2) ==
    IF c1 # c2 THEN FALSE ELSE data1 = data2

\* pop written with an emptiness guard that returns None instead of raising.
pop_none_on_empty(data, also_return_score) ==
    IF data = <<>>
    THEN {Outcome(data, "ok", None)}
    ELSE IF also_return_score
         THEN {Outcome(heappop(data).heap, "ok", heappop(data).item)}
         ELSE {Outcome(data, k, None) : k \in {"TypeError", "AttributeError"}}

\* pop taking the minimum entry off the heap before the faulty call raises.
pop_then_raise(data, also_return_score) ==
    IF data = <<>>
    THEN {Outcome(data, "IndexError", None)}
    ELSE IF also_return_score
         THEN {Outcome(heappop(data).heap, "ok", heappop(data).item)}
         ELSE IF Len(data) < 2
              THEN {Outcome(heappop(data).heap, "IndexError", None)}
              ELSE {Outcome(heappop(data).heap, k, None) : k \in {"TypeError", "AttributeError"}}

\* FairLimitedHeap.pop(also_return_score): the set of possible outcomes.
\*   True : heapq.heappop(self._data); IndexError on an empty list.
\*   False: heapq.heappop(self._data[1]); self._data[1] raises IndexError when
\*          len < 2, otherwise it is a tuple, which heappop rejects (TypeError
\*          from the C accelerator, AttributeError from the pure-Python heapq).
pop(data, also_return_score) ==
    IF also_return_score
    THEN IF data = <<>>
         THEN {Outcome(data, "IndexError", None)}
         ELSE {Outcome(heappop(data).heap, "ok", heappop(data).item)}
    ELSE IF Len(data) < 2
         THEN {Outcome(data, "IndexError", None)}
         ELSE {Outcome(data, k, None) : k \in {"TypeError", "AttributeError"}}

\* The item-only branch written without the sort: [i[1] for i in self._data].
as_sorted_list_unsorted(data, include_values) ==
    Outcome(data, "ok",
            IF include_values
            THEN sorted(data)
            ELSE [i \in DOMAIN data |-> data[i][2]])

\* self._data.sort() in place of sorted(self._data): the heap array is reordered.
as_sorted_list_inplace(data, include_values) ==
    Outcome(sorted(data), "ok",
            IF include_values
            THEN sorted(data)
            ELSE [i \in DOMAIN data |-> sorted(data)[i][2]])

\* FairLimitedHeap.as_sorted_list(include_values)
as_sorted_list(data, include_values) ==
    Outcome(data, "ok",
            IF include_values
            THEN sorted(data)
            ELSE [i \in DOMAIN data |-> sorted(data)[i][2]])

\* list indexing self._data[i] with an integer i: the 1-based position read,
\* or 0 when i is out of range (IndexError).  Negative i counts from the end.
ListPos(data, i) ==
    LET p == IF i < 0 THEN i + Len(data) ELSE i
    IN  IF p < 0 \/ p >= Len(data) THEN 0 ELSE p + 1

\* __getitem__ reading the wrong tuple component: self._data[item][0].
__getitem___score(data, item) ==
    IF ListPos(data, item) = 0
    THEN Outcome(data, "IndexError", None)
    ELSE Outcome(data, "ok", data[ListPos(data, item)][1])

\* FairLimitedHeap.__getitem__(item): self._data[item][1]
__getitem__(data, item) ==
    IF ListPos(data, item) = 0
    THEN Outcome(data, "IndexError", None)
    ELSE Outcome(data, "ok", data[ListPos(data, item)][2])

\* __setitem__ passing the assignment on to the list: self._data[key] = newvalue.
__setitem___assigns(data, key, newvalue) ==
    IF ListPos(data, key) = 0
    THEN Outcome(data, "IndexError", None)
    ELSE Outcome([data EXCEPT ![ListPos(data, key)] = newvalue], "ok", None)

\* FairLimitedHeap.__setitem__(key, newvalue): raise TypeError(...)
__setitem__(data, key, newvalue) ==
    Outcome(data, "TypeError", None)

\* FairLimitedHeap.__len__()
__len__(data) == Outcome(data, "ok", Len(data))

\* FairLimitedHeap.__bool__()
__bool__(data) == Outcome(data, "ok", data # <<>>)

\* FairLimitedHeap.__iter__(): the entries iter(self._data) yields when it is
\* consumed before the next call.
__iter__(data) == Outcome(data, "ok", data)

\* ------------------------------------------------ multiset view of an array
Count(seq, e) == Cardinality({i \in DOMAIN seq : seq[i] = e})

MinScore(seq) == SetMin({seq[i][1] : i \in DOMAIN seq})

\* Number of entries of seq whose score is s.
Tied(seq, s) == Cardinality({i \in DOMAIN seq : seq[i][1] = s})

\* ------------------------------------------- grow-then-evict run (history)
\* k > 0 while a run is being followed: the heap held exactly soft_limit
\* entries, k >= 2 of them tied at the minimum score m, and since then j
\* entries scoring above m have been pushed and nothing else was called.
NoRun == [k |-> 0, m |-> 0, j |-> 0]

GrowAfterPush(g, data, limit, value) ==
    IF g.k > 0 /\ g.j < g.k /\ value > g.m
    THEN [g EXCEPT !.j = @ + 1]
    ELSE IF /\ Len(data) = limit
            /\ data # <<>>
            /\ Tied(data, MinScore(data)) >= 2
            /\ value > MinScore(data)
         THEN [k |-> Tied(data, MinScore(data)), m |-> MinScore(data), j |-> 1]
         ELSE NoRun

\* Nothing pushed, popped or evicted yet.
NoHist == [pushed |-> EmptyBag, popped |-> EmptyBag, evicted |-> EmptyBag]

\* No second heap: an empty FairLimitedHeap that is never touched.
NoTwin == [cls |-> "FairLimitedHeap", limit |-> 1, data |-> <<>>, order |-> "none", fed |-> 0]

\* ------------------------------------------------------------ state machine
\* FairLimitedHeap(soft_limit) with the default initial = ().
Init ==
    /\ _soft_limit \in 1..MaxLimit
    /\ _data = <<>>
    /\ op = "init"
    /\ arg = None
    /\ pre = <<>>
    /\ ret = [kind |-> "ok", val |-> None]
    /\ grow = NoRun
    /\ cls = "FairLimitedHeap"
    /\ initial = <<>>
    /\ twin = NoTwin
    /\ single_pass = FALSE
    /\ hist = NoHist

Push ==
    \E item \in Items, value \in Scores :
        /\ Len(_data) < MaxLen
        /\ _data' = push(_data, _soft_limit, item, value)
        /\ op' = "push"
        /\ arg' = <<value, item>>
        /\ pre' = _data
        /\ ret' = [kind |-> "ok", val |-> None]
        /\ grow' = GrowAfterPush(grow, _data, _soft_limit, value)
        /\ UNCHANGED <<_soft_limit, single_pass, hist, cls, initial, twin>>

Pop ==
    \E also_return_score \in BOOLEAN :
        \E out \in pop(_data, also_return_score) :
            /\ _data' = out.data
            /\ op' = "pop"
            /\ arg' = also_return_score
            /\ pre' = _data
            /\ ret' = [kind |-> out.kind, val |-> out.val]
            /\ grow' = NoRun
            /\ UNCHANGED <<_soft_limit, single_pass, hist, cls, initial, twin>>

Next == Push \/ Pop

Spec == Init /\ [][Next]_vars

\* Pushes only, from the empty heap, with larger limits and longer arrays.
InitDeep ==
    /\ _soft_limit \in 1..DeepLimit
    /\ _data = <<>>
    /\ op = "init"
    /\ arg = None
    /\ pre = <<>>
    /\ ret = [kind |-> "ok", val |-> None]
    /\ grow = NoRun
    /\ cls = "FairLimitedHeap"
    /\ initial = <<>>
    /\ twin = NoTwin
    /\ single_pass = FALSE
    /\ hist = NoHist

PushDeep ==
    \E item \in Items, value \in Scores :
        /\ Len(_data) < DeepLen
        /\ _data' = push(_data, _soft_limit, item, value)
        /\ op' = "push"
        /\ arg' = <<value, item>>
        /\ pre' = _data
        /\ ret' = [kind |-> "ok", val |-> None]
        /\ grow' = GrowAfterPush(grow, _data, _soft_limit, value)
        /\ UNCHANGED <<_soft_limit, single_pass, hist, cls, initial, twin>>

NextDeep == PushDeep

SpecDeep == InitDeep /\ [][NextDeep]_vars

\* ---------------------------------------------------------------- SpecRead
\* One FairLimitedHeap under push, pop and as_sorted_list.
PushRead ==
    \E item \in Items, value \in Scores :
        /\ Len(_data) < ReadLen
        /\ _data' = push(_data, _soft_limit, item, value)
        /\ op' = "push"
        /\ arg' = <<value, item>>
        /\ pre' = _data
        /\ ret' = [kind |-> "ok", val |-> None]
        /\ grow' = NoRun
        /\ UNCHANGED <<_soft_limit, single_pass, hist, cls, initial, twin>>

\* A call that returns out and leaves out.data as the heap array.
Called(name, a, out) ==
    /\ _data' = out.data
    /\ op' = name
    /\ arg' = a
    /\ pre' = _data
    /\ ret' = [kind |-> out.kind, val |-> out.val]
    /\ grow' = NoRun
    /\ UNCHANGED <<_soft_limit, single_pass, hist, cls, initial, twin>>

AsSortedList ==
    \E include_values \in BOOLEAN :
        Called("as_sorted_list", include_values, as_sorted_list(_data, include_values))

NextRead == PushRead \/ Pop \/ AsSortedList

SpecRead == Init /\ [][NextRead]_vars

\* --------------------------------------------------------------- SpecIndex
\* One FairLimitedHeap under push, pop and the container protocol.
PushIndex ==
    \E item \in Items, value \in Scores :
        /\ Len(_data) < IndexLen
        /\ _data' = push(_data, _soft_limit, item, value)
        /\ op' = "push"
        /\ arg' = <<value, item>>
        /\ pre' = _data
        /\ ret' = [kind |-> "ok", val |-> None]
        /\ grow' = NoRun
        /\ UNCHANGED <<_soft_limit, single_pass, hist, cls, initial, twin>>

\* Integer positions offered to heap[i] and heap[k] = v: every valid one and
\* the first invalid one on either side.
Positions == (0 - IndexLen - 1)..IndexLen

GetItem ==
    \E item \in Positions :
        Called("getitem", item, __getitem__(_data, item))

SetItem ==
    \E key \in Positions, newvalue \in Items :
        Called("setitem", <<key, newvalue>>, __setitem__(_data, key, newvalue))

LenOp == Called("len", None, __len__(_data))

BoolOp == Called("bool", None, __bool__(_data))

IterOp == Called("iter", None, __iter__(_data))

NextIndex ==
    \/ PushIndex
    \/ Pop
    \/ GetItem
    \/ SetItem
    \/ LenOp
    \/ BoolOp
    \/ IterOp

SpecIndex == Init /\ [][NextIndex]_vars

\* ---------------------------------------------------------------- SpecCtor
\* FairLimitedHeap(soft_limit, initial) beside a second heap that starts empty
\* and is pushed INITIAL's pairs one by one, in order.  twin.order tells how a
\* pair p is pushed: "is" reads it as (item, score), push(p[1], p[2]);
\* "vi" reads it as (value, item), push(p[2], p[1]).
CtorVals == 1..CtorVal

SeqsUpTo(S, n) == UNION {[1..k -> S] : k \in 0..n}

\* Before the constructor runs: its arguments are chosen.
InitCtor ==
    /\ _soft_limit \in 1..CtorLimit
    /\ _data = <<>>
    /\ op = "new"
    /\ arg = None
    /\ pre = <<>>
    /\ ret = [kind |-> "ok", val |-> None]
    /\ grow = NoRun
    /\ cls = "FairLimitedHeap"
    /\ initial \in SeqsUpTo(CtorVals \X CtorVals, MaxInit)
    /\ twin \in [cls : Classes, limit : {_soft_limit, _soft_limit + 1},
                  data : {<<>>}, order : {"is", "vi"}, fed : {0}]
    /\ single_pass = FALSE
    /\ hist = NoHist

Construct ==
    /\ op = "new"
    /\ Called("init", None, __init__(cls, _soft_limit, initial, single_pass))

FeedTwin ==
    /\ op \in {"init", "twin.push"}
    /\ twin.fed < Len(initial)
    /\ LET p     == initial[twin.fed + 1]
           item  == IF twin.order = "is" THEN p[1] ELSE p[2]
           value == IF twin.order = "is" THEN p[2] ELSE p[1]
       IN  /\ twin' = [twin EXCEPT
                          !.data = self_push(twin.cls, twin.data, twin.limit, item, value),
                          !.fed = @ + 1]
           /\ op' = "twin.push"
           /\ arg' = <<value, item>>
    /\ UNCHANGED <<_soft_limit, single_pass, hist, _data, pre, ret, grow, cls, initial>>

\* self == twin, once the twin has been pushed all of INITIAL.
Eq ==
    /\ op \in {"init", "twin.push"}
    /\ twin.fed = Len(initial)
    /\ op' = "eq"
    /\ arg' = None
    /\ pre' = _data
    /\ ret' = [kind |-> "ok", val |-> __eq__(cls, _data, twin.cls, twin.data)]
    /\ UNCHANGED <<_soft_limit, single_pass, hist, _data, grow, cls, initial, twin>>

NextCtor == Construct \/ FeedTwin \/ Eq

SpecCtor == InitCtor /\ [][NextCtor]_vars

\* ----------------------------------------------------------------- SpecBad
\* The constructor alone, on INITIAL whose pairs may hold a component that is
\* not a number.  A non-numeric second component is stored as an item; it is
\* offered only beside first components no other pair shares, so that heapq
\* never has to order it against another item.
BadVals == CtorVals \cup {NotNum}

ItemNeverCompared(init) ==
    \A i \in DOMAIN init :
        (IsNumber(init[i][1]) /\ ~IsNumber(init[i][2])) =>
            \A j \in DOMAIN init : j # i => init[j][1] # init[i][1]

InitBad ==
    /\ _soft_limit \in 1..CtorLimit
    /\ _data = <<>>
    /\ op = "new"
    /\ arg = None
    /\ pre = <<>>
    /\ ret = [kind |-> "ok", val |-> None]
    /\ grow = NoRun
    /\ cls = "FairLimitedHeap"
    /\ initial \in {init \in SeqsUpTo(BadVals \X BadVals, BadLen) : ItemNeverCompared(init)}
    /\ twin = NoTwin
    /\ single_pass = FALSE
    /\ hist = NoHist

NextBad == Construct

SpecBad == InitBad /\ [][NextBad]_vars

\* ---------------------------------------------------------------- SpecSide
\* A NonNanFairLimitedHeap (self) beside a FairLimitedHeap (twin) with the same
\* soft_limit.  Every push with a score that is not NaN goes to both; a push
\* with a NaN score goes to self alone; pop(True) is called on both.
SideScores == Scores \cup {NegInf, PosInf}

InitSide ==
    /\ _soft_limit \in 1..MaxLimit
    /\ _data = <<>>
    /\ op = "init"
    /\ arg = None
    /\ pre = <<>>
    /\ ret = [kind |-> "ok", val |-> None]
    /\ grow = NoRun
    /\ cls = "NonNanFairLimitedHeap"
    /\ initial = <<>>
    /\ twin = [NoTwin EXCEPT !.limit = _soft_limit]
    /\ single_pass = FALSE
    /\ hist = NoHist

PushBoth ==
    \E item \in Items, value \in SideScores :
        /\ Len(_data) < SideLen
        /\ _data' = self_push(cls, _data, _soft_limit, item, value)
        /\ twin' = [twin EXCEPT !.data = self_push(twin.cls, twin.data, twin.limit, item, value)]
        /\ op' = "push"
        /\ arg' = <<value, item>>
        /\ pre' = _data
        /\ ret' = [kind |-> "ok", val |-> None]
        /\ UNCHANGED <<_soft_limit, single_pass, hist, grow, cls, initial>>

PushNaN ==
    \E item \in Items :
        /\ _data' = self_push(cls, _data, _soft_limit, item, NaN)
        /\ op' = "push"
        /\ arg' = <<NaN, item>>
        /\ pre' = _data
        /\ ret' = [kind |-> "ok", val |-> None]
        /\ UNCHANGED <<_soft_limit, single_pass, hist, grow, cls, initial, twin>>

PopBoth ==
    /\ _data # <<>>
    /\ twin.data # <<>>
    /\ \E out \in pop(_data, TRUE) :
           /\ _data' = out.data
           /\ ret' = [kind |-> out.kind, val |-> out.val]
    /\ \E out \in pop(twin.data, TRUE) :
           twin' = [twin EXCEPT !.data = out.data]
    /\ op' = "pop"
    /\ arg' = TRUE
    /\ pre' = _data
    /\ UNCHANGED <<_soft_limit, single_pass, hist, grow, cls, initial>>

NextSide == PushBoth \/ PushNaN \/ PopBoth

SpecSide == InitSide /\ [][NextSide]_vars

\* ------------------------------------------------- what the last push did
\* Copies of entry e in the heap right after the insertion of the last push.
CountInserted(e) == Count(pre, e) + (IF e = arg THEN 1 ELSE 0)

\* Copies of entry e the last push removed.
Evicted(e) == CountInserted(e) - Count(_data, e)

\* The minimum score in the heap right after the insertion of the last push.
MinAfterInsert == SetMin({pre[i][1] : i \in DOMAIN pre} \cup {arg[1]})

\* The minimum entry of a non-empty array under the tuple order.
MinEntry(seq) ==
    CHOOSE e \in {seq[i] : i \in DOMAIN seq} :
        \A i \in DOMAIN seq : ~Less(seq[i], e)

\* ------------------------------------------------------------------ claims

\* C1: a push removes either nothing, or every entry whose score equals the
\* minimum score of the heap right after the insertion; never only some of the
\* entries tied at that minimum.
C1_FairEviction ==
    op = "push" =>
        \/ \A e \in Entries : Evicted(e) = 0
        \/ \A e \in Entries :
               Evicted(e) = IF e[1] = MinAfterInsert THEN CountInserted(e) ELSE 0

\* C2: after every push, either the size is at most soft_limit, or the size
\* minus the number of entries tied at the current minimum score is strictly
\* below soft_limit.
C2_SoftLimit ==
    op = "push" =>
        \/ Len(_data) <= _soft_limit
        \/ Len(_data) - Tied(_data, MinScore(_data)) < _soft_limit

\* C3: the array is a binary min-heap under the (score, item) order: no entry
\* is smaller than its parent, so position 0 holds the minimum entry.
C3_HeapProperty ==
    /\ \A p \in 1..(Len(_data) - 1) :
           ~Less(_data[p + 1], _data[((p - 1) \div 2) + 1])
    /\ _data # <<>> => _data[1] = MinEntry(_data)

C3_Witness ==
    /\ op = "pop"
    /\ ret.kind = "ok"
    /\ Len(_data) >= 3
    /\ \E i \in 1..(Len(_data) - 1) : Less(_data[i + 1], _data[i])

\* C4: from a heap of exactly soft_limit entries with k >= 2 tied at the
\* minimum, pushing k entries scoring above that minimum grows the heap by one
\* on each of the first k - 1 pushes, and the k-th push removes the k tied
\* entries and leaves soft_limit entries.
C4_GrowThenEvict ==
    grow.k > 0 =>
        /\ grow.j < grow.k => Len(_data) = _soft_limit + grow.j
        /\ grow.j = grow.k =>
               /\ Len(_data) = _soft_limit
               /\ Tied(_data, grow.m) = 0

\* C5: if every entry has the same score right after the insertion, push
\* evicts nothing: the size grows by exactly one.
C5_AllTied ==
    (/\ op = "push"
     /\ \A i \in DOMAIN pre : pre[i][1] = arg[1])
    => /\ Len(_data) = Len(pre) + 1
       /\ \A e \in Entries : Evicted(e) = 0

\* C6: after a push on a heap of size n the size is at least
\* min(n + 1, soft_limit).
C6_NoUndershoot ==
    op = "push" =>
        Len(_data) >= (IF Len(pre) + 1 < _soft_limit THEN Len(pre) + 1 ELSE _soft_limit)

C6_Witness ==
    /\ op = "push"
    /\ Len(pre) >= _soft_limit
    /\ Len(_data) = _soft_limit
    /\ Len(_data) < Len(pre)

\* C7: a push whose insertion leaves at most soft_limit entries evicts
\* nothing: the entries are the previous ones plus the new one.
C7_PushBelowLimit ==
    (op = "push" /\ Len(pre) + 1 <= _soft_limit) =>
        /\ Len(_data) = Len(pre) + 1
        /\ \A e \in Entries : Count(_data, e) = CountInserted(e)

C7_Witness ==
    /\ op = "push"
    /\ Len(pre) + 1 = _soft_limit
    /\ Len(pre) >= 1
    /\ Less(arg, pre[1])
    /\ Len(_data) = _soft_limit

\* C8: pop(also_return_score=False) on a non-empty heap removes the minimum
\* entry, returns its item only, and shrinks the heap by one.
C8_PopItemOnly ==
    (op = "pop" /\ arg = FALSE /\ pre # <<>>) =>
        /\ ret.kind = "ok"
        /\ ret.val = MinEntry(pre)[2]
        /\ Len(_data) = Len(pre) - 1
        /\ \A e \in Entries :
               Count(_data, e) = Count(pre, e) - (IF e = MinEntry(pre) THEN 1 ELSE 0)

\* C9: pop(also_return_score=True) on a non-empty heap returns the minimum
\* (score, item) pair and removes exactly that entry, whatever the size.
C9_PopWithScore ==
    (op = "pop" /\ arg = TRUE /\ pre # <<>>) =>
        /\ ret.kind = "ok"
        /\ ret.val = MinEntry(pre)
        /\ Len(_data) = Len(pre) - 1
        /\ \A e \in Entries :
               Count(_data, e) = Count(pre, e) - (IF e = ret.val THEN 1 ELSE 0)

C9_Witness ==
    /\ op = "pop"
    /\ arg = TRUE
    /\ Len(pre) >= 3
    /\ ret.kind = "ok"
    /\ Len(_data) > _soft_limit
    /\ Len(_data) - ScanIndex(_data) >= _soft_limit

\* C10: pop on an empty heap raises, the same exception for either flag, and
\* the heap stays empty.
C10_PopEmpty ==
    (op = "pop" /\ pre = <<>>) =>
        /\ ret.kind = "IndexError"
        /\ ret.val = None
        /\ _data = <<>>

C10_Witness ==
    /\ op = "pop"
    /\ arg = FALSE
    /\ pre = <<>>
    /\ ret.kind = "IndexError"
    /\ _data = <<>>

\* A sequence is ascending under the (score, item) order.
Ascending(seq) == \A i \in 1..(Len(seq) - 1) : ~Less(seq[i + 1], seq[i])

\* Entry e stands at place i of the ascending arrangement of seq's entries:
\* the entries smaller than e fill the places before i, and e's copies reach i.
RankedAt(seq, e, i) ==
    LET below == Cardinality({j \in DOMAIN seq : Less(seq[j], e)})
    IN  /\ Count(seq, e) > 0
        /\ below < i
        /\ i <= below + Count(seq, e)

\* C11: as_sorted_list(True) returns the heap's entries, each as often as the
\* heap holds it, in ascending (score, item) order; as_sorted_list(False)
\* returns the item components of that same ascending sequence, in order.
C11_SortedList ==
    op = "as_sorted_list" =>
        /\ ret.kind = "ok"
        /\ Len(ret.val) = Len(pre)
        /\ arg = TRUE =>
               /\ \A e \in Entries : Count(ret.val, e) = Count(pre, e)
               /\ Ascending(ret.val)
        /\ arg = FALSE =>
               \A i \in 1..Len(pre) :
                   \E e \in Entries : RankedAt(pre, e, i) /\ ret.val[i] = e[2]

C11_Witness ==
    /\ op = "as_sorted_list"
    /\ arg = FALSE
    /\ Len(pre) >= 3
    /\ \E i \in 1..(Len(pre) - 1) : Less(pre[i + 1], pre[i])
    /\ \E i \in 1..(Len(pre) - 1) : ret.val[i + 1] < ret.val[i]

\* C12: as_sorted_list leaves the array and soft_limit as they were, and a
\* second call right after a first with the same flag returns the same list.
C12_ReadOnlyRepeatable ==
    [][op' = "as_sorted_list" =>
           /\ _data' = _data
           /\ _soft_limit' = _soft_limit
           /\ (op = "as_sorted_list" /\ arg = arg') => ret' = ret]_vars

C12_Witness ==
    /\ op = "as_sorted_list"
    /\ arg = TRUE
    /\ Len(_data) >= 3
    /\ ret.val # _data

\* C18: heap[k] = v raises for every position k, valid or not, and every v,
\* and leaves the array and soft_limit as they were.
C18_SetItemRaises ==
    [][op' = "setitem" =>
           /\ ret'.kind = "TypeError"
           /\ _data' = _data
           /\ _soft_limit' = _soft_limit]_vars

C18_Witness ==
    /\ op = "setitem"
    /\ ListPos(pre, arg[1]) # 0
    /\ Len(pre) >= 2
    /\ ret.kind = "TypeError"

\* C20: len(heap) is the number of array entries, bool(heap) tells whether
\* there is any, heap[i] is the item component of the entry at array position
\* i, iteration yields the entries in array order; none of these changes the
\* array, and no operation changes soft_limit.
C20_ReadOnlyProtocol ==
    [][/\ _soft_limit' = _soft_limit
       /\ op' \in {"len", "bool", "getitem", "iter"} => _data' = _data
       /\ op' = "len" => ret' = [kind |-> "ok", val |-> Len(_data)]
       /\ op' = "bool" => ret' = [kind |-> "ok", val |-> (Len(_data) > 0)]
       /\ (op' = "getitem" /\ arg' \in 0..(Len(_data) - 1)) =>
              ret' = [kind |-> "ok", val |-> _data[arg' + 1][2]]
       /\ op' = "iter" =>
              /\ ret'.kind = "ok"
              /\ Len(ret'.val) = Len(_data)
              /\ \A i \in 1..Len(_data) : ret'.val[i] = _data[i]]_vars

C20_Witness ==
    /\ op = "getitem"
    /\ arg = 1
    /\ Len(_data) >= 2
    /\ _data[2][1] # _data[2][2]
    /\ ret = [kind |-> "ok", val |-> _data[2][2]]

\* The twin has the class and soft_limit of self and has been pushed every
\* pair of INITIAL, in order.
TwinBuilt(order) ==
    /\ op \in {"init", "twin.push", "eq"}
    /\ twin.order = order
    /\ twin.cls = cls
    /\ twin.limit = _soft_limit
    /\ twin.fed = Len(initial)

\* C13 as claimed: the heap constructed from initial equals the heap pushed
\* push(p[1], p[2]) for every pair p of initial, read as (item, score).
C13_CtorEqualsPushes ==
    TwinBuilt("is") => __eq__(cls, _data, twin.cls, twin.data)

\* C13, amended: the heap constructed from initial equals the heap pushed
\* push(p[2], p[1]) for every pair p of initial, read as (value, item).
C13_CtorEqualsPushesValueItem ==
    TwinBuilt("vi") => __eq__(cls, _data, twin.cls, twin.data)

C13_Witness ==
    /\ TwinBuilt("vi")
    /\ Len(initial) = 3
    /\ Len(_data) < 3
    /\ \E i \in DOMAIN initial : initial[i][1] # initial[i][2]
    /\ __eq__(cls, _data, twin.cls, twin.data)

\* C14: a pair (v, x) of initial is stored as the entry (score v, item x):
\* every stored entry is a pair of initial as written, and while initial holds
\* no more than soft_limit pairs the stored entries are exactly its pairs.
C14_PairOrder ==
    (op = "init" /\ ret.kind = "ok") =>
        /\ \A i \in DOMAIN _data : \E j \in DOMAIN initial : _data[i] = initial[j]
        /\ Len(initial) <= _soft_limit =>
               \A p \in CtorVals \X CtorVals : Count(_data, p) = Count(initial, p)

C14_Witness ==
    /\ op = "init"
    /\ initial = <<<<1, 2>>>>
    /\ _data = <<<<1, 2>>>>

\* The two arrays hold the same entries, each as often in one as in the other.
SameEntries(a, b) ==
    /\ Len(a) = Len(b)
    /\ \A i \in DOMAIN a : Count(a, a[i]) = Count(b, a[i])

\* C15: h1 == h2 is true exactly when both are of the same class and their
\* arrays agree position by position; soft_limit plays no part, and the same
\* entries in another array order compare unequal.
C15_Equality ==
    op = "eq" =>
        ret.val = (/\ twin.cls = cls
                   /\ Len(twin.data) = Len(_data)
                   /\ \A i \in DOMAIN _data : twin.data[i] = _data[i])

C15_Witness ==
    /\ op = "eq"
    /\ twin.cls = cls
    /\ SameEntries(_data, twin.data)
    /\ twin.data # _data
    /\ ret.val = FALSE

\* C19 as claimed: with pairs read as (item, score), a pair whose score (its
\* second component) is not a number makes construction fail with nothing
\* pushed.
C19_NonNumericScoreFails ==
    (op = "init" /\ \E i \in DOMAIN initial : ~IsNumber(initial[i][2])) =>
        /\ ret.kind # "ok"
        /\ _data = <<>>

\* C19, amended: with pairs read as (value, item), a pair whose value (its
\* first component, the score) is not a number makes construction fail with
\* AssertionError and nothing pushed, wherever in initial the pair stands.
C19_NonNumericValueFails ==
    (op = "init" /\ \E i \in DOMAIN initial : ~IsNumber(initial[i][1])) =>
        /\ ret.kind = "AssertionError"
        /\ _data = <<>>

C19_Witness ==
    /\ op = "init"
    /\ Len(initial) = 2
    /\ IsNumber(initial[1][1])
    /\ ~IsNumber(initial[2][1])
    /\ ret.kind = "AssertionError"
    /\ _data = <<>>

\* C16: on the NaN-filtering heap a push with a NaN score returns normally
\* and leaves the array, hence its length and its sorted contents, untouched.
C16_NaNRejected ==
    (op = "push" /\ cls = "NonNanFairLimitedHeap" /\ isnan(arg[1])) =>
        /\ ret = [kind |-> "ok", val |-> None]
        /\ Len(_data) = Len(pre)
        /\ \A i \in DOMAIN pre : _data[i] = pre[i]

C16_Witness ==
    /\ op = "push"
    /\ cls = "NonNanFairLimitedHeap"
    /\ isnan(arg[1])
    /\ Len(pre) >= 2
    /\ _data = pre

\* C17: a NaN-filtering heap and a base heap with the same soft_limit, given
\* the same pushes with scores that are not NaN (infinities included), hold
\* the same array after every push.
C17_NonNaNDelegates ==
    (/\ cls = "NonNanFairLimitedHeap"
     /\ twin.cls = "FairLimitedHeap"
     /\ twin.limit = _soft_limit)
    => /\ Len(twin.data) = Len(_data)
       /\ \A i \in DOMAIN _data : twin.data[i] = _data[i]

C17_Witness ==
    /\ op = "push"
    /\ cls = "NonNanFairLimitedHeap"
    /\ twin.cls = "FairLimitedHeap"
    /\ arg[1] = PosInf
    /\ Len(pre) >= 2
    /\ Len(_data) <= Len(pre)
    /\ \E i \in DOMAIN _data : _data[i] = arg
    /\ twin.data = _data

\* ------------------------------------------------------------- C21 .. C29
\* The array right after the insertion of the last push.
Inserted == heappush(pre, arg)

\* The run of entries from the front of the array whose score is the score of
\* the entry at the front; the whole array if every entry has that score.
FrontRun(data) ==
    LET differs == {i \in 1..(Len(data) - 1) : data[i + 1][1] # data[1][1]}
    IN  IF differs = {} THEN Len(data) ELSE SetMin(differs)

\* C21: when the insertion makes the size n exceed soft_limit and k is the
\* front run of entries at the minimum score (k = n if all are tied), the push
\* removes the k smallest entries by k heappops if n - k >= soft_limit, and
\* removes nothing otherwise.
C21_EvictionRule ==
    (op = "push" /\ Len(Inserted) > _soft_limit) =>
        LET n == Len(Inserted)
            k == FrontRun(Inserted)
        IN  IF n - k >= _soft_limit
            THEN /\ _data = PopN(Inserted, k)
                 /\ Len(_data) = n - k
                 /\ \A e \in Entries, i \in DOMAIN _data :
                        Evicted(e) > 0 => ~Less(_data[i], e)
            ELSE _data = Inserted

\* ---------------------------------------------------------------- SpecIter
\* The constructor on INITIAL given as a list or as a single-pass iterator.
InitIter ==
    /\ _soft_limit \in 1..CtorLimit
    /\ _data = <<>>
    /\ op = "new"
    /\ arg = None
    /\ pre = <<>>
    /\ ret = [kind |-> "ok", val |-> None]
    /\ grow = NoRun
    /\ cls \in Classes
    /\ initial \in SeqsUpTo(CtorVals \X CtorVals, MaxInit)
    /\ twin = NoTwin
    /\ single_pass \in BOOLEAN
    /\ hist = NoHist

NextIter == Construct

SpecIter == InitIter /\ [][NextIter]_vars

\* C22: whatever iterable INITIAL is, a single-pass iterator included, the
\* constructed heap is the result of pushing every pair of INITIAL in order,
\* and it is not empty when INITIAL held a pair.
C22_ConsumesInitial ==
    (op = "init" /\ ret.kind = "ok") =>
        /\ _data = push_all(cls, <<>>, _soft_limit, initial)
        /\ initial # <<>> => _data # <<>>

\* C23: every entry a push removes has the minimum score of the heap right
\* after the insertion; an entry scoring above that minimum is never removed,
\* so a pushed entry scoring above the minimum is still in the heap afterwards.
C23_OnlyMinimumEvicted ==
    op = "push" =>
        /\ \A e \in Entries : Evicted(e) > 0 => e[1] = MinAfterInsert
        /\ arg[1] > MinAfterInsert =>
               /\ \E i \in DOMAIN _data : _data[i] = arg
               /\ Count(_data, arg) = CountInserted(arg)

C23_Witness ==
    /\ op = "push"
    /\ arg[1] > MinAfterInsert
    /\ Len(_data) < Len(pre)
    /\ \E e \in Entries : Evicted(e) >= 2 /\ e[1] = MinAfterInsert
    /\ \E i \in DOMAIN _data : _data[i] = arg

\* C26: a push whose score is strictly below every score in a heap that
\* already holds at least soft_limit entries evicts the pushed entry at once:
\* the entries and the size are afterwards what they were before.
C26_NewLowestRejected ==
    (/\ op = "push"
     /\ Len(pre) >= _soft_limit
     /\ \A i \in DOMAIN pre : arg[1] < pre[i][1])
    => /\ Len(_data) = Len(pre)
       /\ \A e \in Entries : Count(_data, e) = Count(pre, e)
       /\ Evicted(arg) = 1

C26_Witness ==
    /\ op = "push"
    /\ Len(pre) = _soft_limit
    /\ Len(pre) >= 2
    /\ \A i \in DOMAIN pre : arg[1] < pre[i][1]
    /\ Len(_data) = Len(pre)
    /\ \A i \in DOMAIN _data : _data[i] # arg

\* C28: a pop that ends in an error, with either flag and on a heap of any
\* size, leaves the array and its size as they were.
C28_FailedPopKeepsHeap ==
    (op = "pop" /\ ret.kind # "ok") =>
        /\ Len(_data) = Len(pre)
        /\ \A i \in DOMAIN pre : _data[i] = pre[i]

C28_Witness ==
    /\ op = "pop"
    /\ arg = FALSE
    /\ Len(pre) >= 2
    /\ ret.kind \notin {"ok", "IndexError"}
    /\ _data = pre

\* ---------------------------------------------------------------- SpecHist
\* One FairLimitedHeap under push and pop, with the bags of the entries
\* pushed, returned by a successful pop, and taken off by the eviction loop.
RECURSIVE PopNItems(_, _)
\* The entries the n heappop calls of the eviction loop take off the heap.
PopNItems(data, n) ==
    IF n = 0
    THEN EmptyBag
    ELSE SetToBag({heappop(data).item}) (+) PopNItems(heappop(data).heap, n - 1)

\* The entries one call of push takes off the heap again.
push_evicted(data, limit, item, value) ==
    LET pushed == heappush(data, <<value, item>>)
    IN  IF Len(pushed) <= limit
        THEN EmptyBag
        ELSE PopNItems(pushed, EvictCount(pushed, limit))

HistItems == 1..HistItem

PushHist ==
    \E item \in HistItems, value \in Scores :
        /\ BagCardinality(hist.pushed) < HistPushes
        /\ _data' = push(_data, _soft_limit, item, value)
        /\ hist' = [hist EXCEPT
                       !.pushed = @ (+) SetToBag({<<value, item>>}),
                       !.evicted = @ (+) push_evicted(_data, _soft_limit, item, value)]
        /\ op' = "push"
        /\ arg' = <<value, item>>
        /\ pre' = _data
        /\ ret' = [kind |-> "ok", val |-> None]
        /\ grow' = NoRun
        /\ UNCHANGED <<_soft_limit, single_pass, cls, initial, twin>>

PopHist ==
    \E also_return_score \in BOOLEAN :
        \E out \in pop(_data, also_return_score) :
            /\ _data' = out.data
            /\ hist' = IF out.kind = "ok"
                       THEN [hist EXCEPT !.popped = @ (+) SetToBag({heappop(_data).item})]
                       ELSE hist
            /\ op' = "pop"
            /\ arg' = also_return_score
            /\ pre' = _data
            /\ ret' = [kind |-> out.kind, val |-> out.val]
            /\ grow' = NoRun
            /\ UNCHANGED <<_soft_limit, single_pass, cls, initial, twin>>

NextHist == PushHist \/ PopHist

SpecHist == Init /\ [][NextHist]_vars

\* C29: the heap holds exactly the entries pushed, less those a successful pop
\* returned, less those push evicted; its size is pushes minus pops minus
\* evictions.
C29_EntryConservation ==
    /\ \A e \in Entries :
           Count(_data, e) = CopiesIn(e, hist.pushed) - CopiesIn(e, hist.popped)
                                 - CopiesIn(e, hist.evicted)
    /\ \A i \in DOMAIN _data : _data[i] \in Entries
    /\ Len(_data) = BagCardinality(hist.pushed) - BagCardinality(hist.popped)
                        - BagCardinality(hist.evicted)

C29_Witness ==
    /\ BagCardinality(hist.pushed) = HistPushes
    /\ BagCardinality(hist.popped) >= 1
    /\ BagCardinality(hist.evicted) >= 2
    /\ \E e \in Entries : CopiesIn(e, hist.pushed) >= 2 /\ Count(_data, e) = 1

\* C24: after pushes alone from the empty heap, no evicted entry has a score
\* strictly greater than the score of an entry still in the heap.
C24_RetainedDominate ==
    hist.popped = EmptyBag =>
        \A e \in BagToSet(hist.evicted), i \in DOMAIN _data : e[1] <= _data[i][1]

C24_Witness ==
    /\ hist.popped = EmptyBag
    /\ Cardinality({e[1] : e \in BagToSet(hist.evicted)}) >= 2
    /\ _soft_limit >= 2
    /\ Len(_data) >= _soft_limit
    /\ \E e \in BagToSet(hist.evicted) : e[1] = MinScore(_data)

\* ------------------------------------------------------------ SpecDistinct
\* Pushes alone from the empty heap, every push with a score not pushed before.
DistinctScores == 1..DistinctScore

PushedScores == {e[1] : e \in BagToSet(hist.pushed)}

PushDistinct ==
    \E item \in HistItems, value \in DistinctScores \ PushedScores :
        /\ _data' = push(_data, _soft_limit, item, value)
        /\ hist' = [hist EXCEPT
                       !.pushed = @ (+) SetToBag({<<value, item>>}),
                       !.evicted = @ (+) push_evicted(_data, _soft_limit, item, value)]
        /\ op' = "push"
        /\ arg' = <<value, item>>
        /\ pre' = _data
        /\ ret' = [kind |-> "ok", val |-> None]
        /\ grow' = NoRun
        /\ UNCHANGED <<_soft_limit, single_pass, cls, initial, twin>>

NextDistinct == PushDistinct

SpecDistinct == Init /\ [][NextDistinct]_vars

\* C25: with pairwise distinct scores, after every push the size is
\* min(pushes so far, soft_limit) and the heap holds exactly the soft_limit
\* highest-scoring entries pushed so far (all of them if fewer were pushed).
C25_StrictBoundNoTies ==
    LET pushed == BagToSet(hist.pushed)
        n      == BagCardinality(hist.pushed)
    IN  (/\ hist.popped = EmptyBag
         /\ Cardinality(PushedScores) = n)
        => /\ Len(_data) = (IF n < _soft_limit THEN n ELSE _soft_limit)
           /\ \A i \in DOMAIN _data : _data[i] \in pushed
           /\ \A e \in pushed :
                  (\E i \in DOMAIN _data : _data[i] = e)
                      <=> Cardinality({f \in pushed : f[1] > e[1]}) < _soft_limit

C25_Witness ==
    /\ op = "push"
    /\ BagCardinality(hist.pushed) = DistinctScore
    /\ _soft_limit = MaxLimit
    /\ Len(_data) = _soft_limit
    /\ BagCardinality(hist.evicted) >= 2
    /\ \A i \in DOMAIN pre : arg[1] > pre[i][1]

\* ----------------------------------------------------------------- SpecNaN
\* NonNanFairLimitedHeap(soft_limit, initial) with NaN among the scores of
\* INITIAL, then push (NaN scores included) and pop on the constructed heap.
NaNScores == CtorVals \cup {NaN}

InitNaN ==
    /\ _soft_limit \in 1..CtorLimit
    /\ _data = <<>>
    /\ op = "new"
    /\ arg = None
    /\ pre = <<>>
    /\ ret = [kind |-> "ok", val |-> None]
    /\ grow = NoRun
    /\ cls = "NonNanFairLimitedHeap"
    /\ initial \in SeqsUpTo(NaNScores \X HistItems, NaNInit)
    /\ twin = NoTwin
    /\ single_pass = FALSE
    /\ hist = NoHist

PushNonNan ==
    \E item \in HistItems, value \in NaNScores :
        /\ op # "new"
        /\ BagCardinality(hist.pushed) < NaNPushes
        /\ _data' = self_push(cls, _data, _soft_limit, item, value)
        /\ hist' = [hist EXCEPT !.pushed = @ (+) SetToBag({<<value, item>>})]
        /\ op' = "push"
        /\ arg' = <<value, item>>
        /\ pre' = _data
        /\ ret' = [kind |-> "ok", val |-> None]
        /\ grow' = NoRun
        /\ UNCHANGED <<_soft_limit, single_pass, cls, initial, twin>>

PopNonNan ==
    /\ op # "new"
    /\ \E also_return_score \in BOOLEAN :
           \E out \in pop(_data, also_return_score) :
               /\ _data' = out.data
               /\ op' = "pop"
               /\ arg' = also_return_score
               /\ pre' = _data
               /\ ret' = [kind |-> out.kind, val |-> out.val]
               /\ grow' = NoRun
               /\ UNCHANGED <<_soft_limit, single_pass, hist, cls, initial, twin>>

NextNaN == Construct \/ PushNonNan \/ PopNonNan

SpecNaN == InitNaN /\ [][NextNaN]_vars

\* C27: a NonNanFairLimitedHeap never holds an entry whose score is NaN, not
\* after construction from INITIAL with NaN-scored pairs, nor after any push
\* or pop.
C27_NoNaNStored ==
    cls = "NonNanFairLimitedHeap" =>
        \A i \in DOMAIN _data : ~isnan(_data[i][1])

C27_Witness ==
    /\ op = "push"
    /\ isnan(arg[1])
    /\ Len(initial) = 2
    /\ isnan(initial[1][1])
    /\ ~isnan(initial[2][1])
    /\ _data = <<<<initial[2][1], initial[2][2]>>>>

====
